---- MODULE Spec2Model ----
(***************************************************************************)
(* A model of the deimos-core parser (src/deimos-core/src/parser.rs): the  *)
(* statement reducer Parser::collapse_statement, the assignment and block  *)
(* collapsers and the driver Parser::process_statements, run over bounded  *)
(* token sequences.                                                        *)
(*                                                                         *)
(* Positions (`pos`) are 0-based as in the source; TLA+ sequences are      *)
(* 1-based, so the source's statement[pos] is written st[pos + 1].         *)
(***************************************************************************)
EXTENDS Integers, Sequences, FiniteSets, TLC

VARIABLES
    input,      \* the token types handed to the operation under test
    stack,      \* call stack of the parser: process_statements / collapse_block_statement frames
    ret,        \* value returned by the frame that was popped last
    result,     \* what Parser::from_scanner returned
    statement,  \* collapse_statement: its working list
    pos,        \* collapse_statement: its cursor
    outcome,    \* collapse_statement: what it returned
    raw_tokens,         \* Tree::from_scanner: tokens not yet read
    tree_tokens,        \* Tree::from_scanner: its tokens, the groups pushed so far
    sub_tokens,         \* Tree::from_scanner: the group being filled
    tree,               \* Tree::from_scanner: what it returned
    code_tokens,        \* prototype Parser::build_tree: tokens next_token has yet to give
    trees,              \* prototype Parser: self.trees
    current_branch,     \* prototype Parser::build_tree: its current_branch
    assignment_branch,  \* prototype Parser::build_tree: its assignment_branch
    built,              \* prototype Parser::build_tree: what it returned
    grams,              \* Binary::process_set: the list it works on
    tier,               \* Binary::process_set: its tier
    processed,          \* Binary::process_set: what it returned
    arg1,               \* create_from: the caller's first argument
    arg2,               \* create_from: the caller's second argument
    arg3,               \* Binary::create_from: the caller's third argument
    created             \* create_from: what it returned

\* the variables, by the operation they belong to
treeVars == <<raw_tokens, tree_tokens, sub_tokens, tree>>

buildVars == <<code_tokens, trees, current_branch, assignment_branch, built>>

binaryVars == <<grams, tier, processed>>

sliceVars == <<arg1, arg2, arg3, created>>

coreVars == <<stack, ret, result, statement, pos, outcome>>

proto == <<treeVars, buildVars, binaryVars, sliceVars>>

vars == <<input, coreVars, proto>>

\* a variable of an operation that is not running: a list, a value
Idle == <<>>

Off == [kind |-> "Off"]

TreeIdle ==
    /\ raw_tokens = Idle /\ tree_tokens = Idle /\ sub_tokens = Idle /\ tree = Off

BuildIdle ==
    /\ code_tokens = Idle /\ trees = Idle /\ current_branch = Off
    /\ assignment_branch = Off /\ built = Off

BinaryIdle ==
    /\ grams = Idle /\ tier = 0 /\ processed = Off

SliceIdle ==
    /\ arg1 = Off /\ arg2 = Off /\ arg3 = Off /\ created = Off

ParserIdle ==
    /\ stack = Idle /\ ret = Off /\ result = Off
    /\ statement = Idle /\ pos = 0 /\ outcome = Off

(***************************************************************************)
(* Bounds of the model.                                                    *)
(***************************************************************************)
MaxGroupLen == 5    \* longest free-form group handed to collapse_statement
MaxOps == 3         \* most binary operators in an operand/operator chain
MaxInputLen == 4    \* longest free-form source handed to from_scanner (before its EOF)
MaxTargets == 2     \* most comma-separated pieces left of an `=`
MaxValues == 2      \* most comma-separated pieces right of an `=`
MaxNesting == 1     \* deepest nesting of blocks inside a block

(***************************************************************************)
(* Token types and their categories.                                       *)
(***************************************************************************)
BinaryOps ==
    {"Carrot", "Star", "Slash", "Plus", "Minus", "DoublePeriod",
     "LessThan", "GreaterThan", "LessEqual", "GreaterEqual", "NotEqual",
     "EqualEqual", "And", "Or"}

UnaryOps == {"Minus", "Not", "Pound"}

ExprTokens == {"Number", "String", "Nil", "True", "False", "Identifier"}

\* precedence tier of a binary operator, 1 = tightest
Tier(tt) ==
    CASE tt = "Carrot" -> 1
      [] tt \in {"Star", "Slash"} -> 2
      [] tt \in {"Plus", "Minus"} -> 3
      [] tt = "DoublePeriod" -> 4
      [] tt \in {"LessThan", "GreaterThan", "LessEqual", "GreaterEqual",
                 "NotEqual", "EqualEqual"} -> 5
      [] tt = "And" -> 6
      [] tt = "Or" -> 7

(***************************************************************************)
(* CodeSlice (src/deimos-core/src/elements/codeslice.rs).                  *)
(***************************************************************************)
CodeSlice_new(abs_start, abs_end, line, line_start_pos) ==
    [abs_start |-> abs_start, abs_end |-> abs_end, line_no |-> line,
     start |-> abs_start - line_start_pos + 1,
     end |-> abs_end - line_start_pos + 1]

\* create_from taking the line and column of its second argument
create_from_second_line(slice1, slice2) ==
    [abs_start |-> slice1.abs_start, abs_end |-> slice2.abs_end,
     line_no |-> slice2.line_no, start |-> slice2.start, end |-> slice2.end]

create_from(slice1, slice2) ==
    [abs_start |-> slice1.abs_start, abs_end |-> slice2.abs_end,
     line_no |-> slice1.line_no, start |-> slice1.start, end |-> slice2.end]

(***************************************************************************)
(* The scanner's output: token i of a sequence of token types occupies one *)
(* byte; an EOL token ends its line.                                       *)
(***************************************************************************)
EolsBefore(types, i) == {j \in 1..(i - 1) : types[j] = "EOL"}

LineStart(types, i) ==
    IF EolsBefore(types, i) = {} THEN 0
    ELSE CHOOSE j \in EolsBefore(types, i) : \A m \in EolsBefore(types, i) : m <= j

Token(types, i) ==
    [k |-> "Token", tt |-> types[i],
     cs |-> CodeSlice_new(i - 1, i, 1 + Cardinality(EolsBefore(types, i)),
                          LineStart(types, i))]

tokens_to_statements(types) == [i \in 1..Len(types) |-> Token(types, i)]

(***************************************************************************)
(* Statement: the predicates and constructors the parser uses.             *)
(***************************************************************************)
as_token_type(s) == IF s.k = "Token" THEN s.tt ELSE "None"

is_unop(s) == s.k = "Token" /\ s.tt \in UnaryOps

is_binop(s) == s.k = "Token" /\ s.tt \in BinaryOps

is_expr(s) == s.k \in {"Unary", "Binary"} \/ (s.k = "Token" /\ s.tt \in ExprTokens)

is_var(s) == s.k = "Token" /\ s.tt = "Identifier"

is_name(s) == s.k = "Token" /\ s.tt = "Identifier"

into_unary(op, expr) == [k |-> "Unary", op |-> op, expr |-> expr]

into_binary(op, expr1, expr2) == [k |-> "Binary", op |-> op, l |-> expr1, r |-> expr2]

RECURSIVE get_code_slice(_)
get_code_slice(s) ==
    CASE s.k = "Token" -> s.cs
      [] s.k = "Unary" -> create_from(s.op.cs, get_code_slice(s.expr))
      [] s.k = "Binary" -> create_from(get_code_slice(s.l), get_code_slice(s.r))

(***************************************************************************)
(* InternalError and the results of the reduction functions.               *)
(***************************************************************************)
Syntax(code_slice) == [err |-> "Syntax", cs |-> code_slice]

SyntaxMsg(msg, code_slice) == [err |-> "SyntaxMsg", msg |-> msg, cs |-> code_slice]

General(msg) == [err |-> "General", msg |-> msg]

Ok(v) == [kind |-> "Ok", val |-> v]

Err(e) == [kind |-> "Err", error |-> e]

Panic == [kind |-> "Panic"]

\* nothing returned yet
None == [kind |-> "None"]

(***************************************************************************)
(* Parser::collapse_statement.                                             *)
(***************************************************************************)
peek_expr_before(p, st) ==
    IF Len(st) < p \/ p = 0 THEN FALSE ELSE is_expr(st[p])

\* statement[pos+1] is read whenever len >= pos+1, also when pos+1 = len
peek_expr_after_out_of_range(p, st) == ~(Len(st) < p + 1) /\ p + 2 > Len(st)

peek_expr_after(p, st) ==
    IF Len(st) < p + 1 THEN FALSE ELSE is_expr(st[p + 2])

\* collapse_branch with the binary fold put off while a later operator can fold
collapse_branch_rightmost(st, p) ==
    IF Len(st) <= 1 \/ Len(st) <= p THEN "break"
    ELSE IF is_unop(st[p + 1]) /\ peek_expr_after_out_of_range(p, st) THEN "panic"
    ELSE IF is_unop(st[p + 1]) /\ peek_expr_after(p, st) /\ ~peek_expr_before(p, st)
        THEN "unary"
    ELSE IF is_binop(st[p + 1]) /\ peek_expr_before(p, st)
            /\ peek_expr_after_out_of_range(p, st) THEN "panic"
    ELSE IF is_binop(st[p + 1]) /\ peek_expr_before(p, st) /\ peek_expr_after(p, st)
            /\ ~\E q \in (p + 1)..(Len(st) - 2) :
                    is_binop(st[q + 1]) /\ is_expr(st[q]) /\ is_expr(st[q + 2])
        THEN "binary"
    ELSE "advance"

\* collapse_branch without the `!peek_expr_before` test of the unary fold
collapse_branch_unary_anywhere(st, p) ==
    IF Len(st) <= 1 \/ Len(st) <= p THEN "break"
    ELSE IF is_unop(st[p + 1]) /\ peek_expr_after_out_of_range(p, st) THEN "panic"
    ELSE IF is_unop(st[p + 1]) /\ peek_expr_after(p, st) THEN "unary"
    ELSE IF is_binop(st[p + 1]) /\ peek_expr_before(p, st)
            /\ peek_expr_after_out_of_range(p, st) THEN "panic"
    ELSE IF is_binop(st[p + 1]) /\ peek_expr_before(p, st) /\ peek_expr_after(p, st)
        THEN "binary"
    ELSE "advance"

\* collapse_branch without the stop at a single statement
collapse_branch_scan_singleton(st, p) ==
    IF Len(st) <= p THEN "break"
    ELSE IF is_unop(st[p + 1]) /\ peek_expr_after_out_of_range(p, st) THEN "panic"
    ELSE IF is_unop(st[p + 1]) /\ peek_expr_after(p, st) /\ ~peek_expr_before(p, st)
        THEN "unary"
    ELSE IF is_binop(st[p + 1]) /\ peek_expr_before(p, st)
            /\ peek_expr_after_out_of_range(p, st) THEN "panic"
    ELSE IF is_binop(st[p + 1]) /\ peek_expr_before(p, st) /\ peek_expr_after(p, st)
        THEN "binary"
    ELSE "advance"

\* which branch one iteration of the loop takes
collapse_branch(st, p) ==
    IF Len(st) <= 1 \/ Len(st) <= p THEN "break"
    ELSE IF is_unop(st[p + 1]) /\ peek_expr_after_out_of_range(p, st) THEN "panic"
    ELSE IF is_unop(st[p + 1]) /\ peek_expr_after(p, st) /\ ~peek_expr_before(p, st)
        THEN "unary"
    ELSE IF is_binop(st[p + 1]) /\ peek_expr_before(p, st)
            /\ peek_expr_after_out_of_range(p, st) THEN "panic"
    ELSE IF is_binop(st[p + 1]) /\ peek_expr_before(p, st) /\ peek_expr_after(p, st)
        THEN "binary"
    ELSE "advance"

unary_fold(st, p) ==
    SubSeq(st, 1, p) \o <<into_unary(st[p + 1], st[p + 2])>>
        \o SubSeq(st, p + 3, Len(st))

\* binary_fold that leaves the right operand in the list as well
binary_fold_keeping(st, p) ==
    SubSeq(st, 1, p - 1) \o <<into_binary(st[p + 1], st[p], st[p + 2])>>
        \o SubSeq(st, p + 2, Len(st))

binary_fold(st, p) ==
    SubSeq(st, 1, p - 1) \o <<into_binary(st[p + 1], st[p], st[p + 2])>>
        \o SubSeq(st, p + 3, Len(st))

\* the match after the loop
collapse_finish(st) ==
    CASE Len(st) = 0 -> Err(General("Statement is empty?"))
      [] Len(st) = 1 -> Ok(st[1])
      [] OTHER -> Err(Syntax(create_from(get_code_slice(st[1]),
                                         get_code_slice(st[Len(st)]))))

RECURSIVE collapse_loop(_, _)
collapse_loop(st, p) ==
    LET b == collapse_branch(st, p) IN
    CASE b = "break" -> collapse_finish(st)
      [] b = "panic" -> Panic
      [] b = "unary" -> collapse_loop(unary_fold(st, p), 0)
      [] b = "binary" -> collapse_loop(binary_fold(st, p), 0)
      [] b = "advance" -> collapse_loop(st, p + 1)

collapse_statement(st) == collapse_loop(st, 0)

(***************************************************************************)
(* collapse_statement, one loop iteration per step.                        *)
(***************************************************************************)
SmallAlphabet == {"Number", "Minus", "Plus", "Not", "Star"}

FreeGroups == UNION {[1..n -> SmallAlphabet] : n \in 0..MaxGroupLen}

Operands == {"Number"}

\* operand (operator operand)^n
RECURSIVE Chains(_)
Chains(n) ==
    IF n = 0 THEN {<<o>> : o \in Operands}
    ELSE {c \o <<op, o>> : c \in Chains(n - 1), op \in BinaryOps, o \in Operands}

ChainGroups == UNION {Chains(n) : n \in 1..MaxOps}

\* 50 == 4 and 3 <= 10 or true
LogicExample ==
    <<"Number", "EqualEqual", "Number", "And", "Number", "LessEqual", "Number",
      "Or", "True">>

ReduceGroups == FreeGroups \cup ChainGroups \cup {LogicExample}

InitReduce ==
    /\ input \in ReduceGroups
    /\ TreeIdle /\ BuildIdle /\ BinaryIdle /\ SliceIdle
    /\ statement = tokens_to_statements(input)
    /\ pos = 0
    /\ outcome = None
    /\ stack = Idle
    /\ ret = None
    /\ result = None

Running == outcome = None

CollapseUnary ==
    /\ Running
    /\ collapse_branch(statement, pos) = "unary"
    /\ statement' = unary_fold(statement, pos)
    /\ pos' = 0
    /\ UNCHANGED <<proto, input, stack, ret, result, outcome>>

CollapseBinary ==
    /\ Running
    /\ collapse_branch(statement, pos) = "binary"
    /\ statement' = binary_fold(statement, pos)
    /\ pos' = 0
    /\ UNCHANGED <<proto, input, stack, ret, result, outcome>>

CollapseAdvance ==
    /\ Running
    /\ collapse_branch(statement, pos) = "advance"
    /\ pos' = pos + 1
    /\ UNCHANGED <<proto, input, stack, ret, result, statement, outcome>>

CollapsePanic ==
    /\ Running
    /\ collapse_branch(statement, pos) = "panic"
    /\ outcome' = Panic
    /\ UNCHANGED <<proto, input, stack, ret, result, statement, pos>>

CollapseFinish ==
    /\ Running
    /\ collapse_branch(statement, pos) = "break"
    /\ outcome' = collapse_finish(statement)
    /\ UNCHANGED <<proto, input, stack, ret, result, statement, pos>>

NextReduce ==
    \/ CollapseUnary
    \/ CollapseBinary
    \/ CollapseAdvance
    \/ CollapsePanic
    \/ CollapseFinish

SpecReduce == InitReduce /\ [][NextReduce]_vars

(***************************************************************************)
(* Helpers of the parser on token buffers.                                 *)
(***************************************************************************)
\* the loop of consume_until_token: tokens taken so far, buffer left
RECURSIVE consume_loop(_, _, _, _)
consume_loop(buffer, tokens, desired_token, include) ==
    IF Len(buffer) <= 0 THEN
        IF Len(tokens) = 0 THEN [kind |-> "Panic", rest |-> buffer]
        ELSE [kind |-> "Err", rest |-> buffer,
              cs |-> create_from(get_code_slice(tokens[1]),
                                 get_code_slice(tokens[Len(tokens)]))]
    ELSE LET token == Head(buffer) IN
        IF as_token_type(token) = desired_token
            \/ (desired_token = "EOL" /\ as_token_type(token) = "EOF")
        THEN [kind |-> "Ok", rest |-> Tail(buffer),
              tokens |-> IF include THEN Append(tokens, token) ELSE tokens]
        ELSE consume_loop(Tail(buffer), Append(tokens, token), desired_token, include)

consume_until_token(buffer, desired_token, include) ==
    consume_loop(buffer, <<>>, desired_token, include)

\* remove_token that leaves the buffer as it is
remove_token_nothing(buffer, desired_token) == buffer

remove_token(buffer, desired_token) ==
    SelectSeq(buffer, LAMBDA t : as_token_type(t) # desired_token)

contains_token(tokens, token_to_look_for) ==
    \E i \in 1..Len(tokens) : as_token_type(tokens[i]) = token_to_look_for

RECURSIVE split_loop(_, _, _, _)
split_loop(tokens, splitter, splits, working) ==
    IF Len(tokens) <= 0 THEN
        IF Len(working) > 0 THEN Append(splits, working) ELSE splits
    ELSE IF as_token_type(Head(tokens)) = splitter
        THEN split_loop(Tail(tokens), splitter, Append(splits, working), <<>>)
        ELSE split_loop(Tail(tokens), splitter, splits, Append(working, Head(tokens)))

\* split_by_token without the flush of the last working piece
split_by_token_no_flush(tokens, splitter) ==
    LET all == split_loop(tokens, splitter, <<>>, <<>>) IN
    IF Len(tokens) > 0 /\ as_token_type(tokens[Len(tokens)]) # splitter
    THEN SubSeq(all, 1, Len(all) - 1) ELSE all

split_by_token(tokens, splitter) == split_loop(tokens, splitter, <<>>, <<>>)

(***************************************************************************)
(* Parser::collapse_assignment.                                            *)
(***************************************************************************)
create_assignment(var_list, expr_list, local) ==
    [k |-> "Assignment", vars |-> var_list, exprs |-> expr_list, local |-> local]

\* check_var with the two branches' messages exchanged
check_var_swapped(stat, local) ==
    IF local THEN
        IF ~is_var(stat)
        THEN Err(SyntaxMsg("Left side of '=' must be a var", get_code_slice(stat)))
        ELSE Ok(stat)
    ELSE
        IF ~is_name(stat)
        THEN Err(SyntaxMsg("Left side of a local '=' must be a name", get_code_slice(stat)))
        ELSE Ok(stat)

\* the check of one collapsed left piece
check_var(stat, local) ==
    IF ~local THEN
        IF ~is_var(stat)
        THEN Err(SyntaxMsg("Left side of '=' must be a var", get_code_slice(stat)))
        ELSE Ok(stat)
    ELSE
        IF ~is_name(stat)
        THEN Err(SyntaxMsg("Left side of a local '=' must be a name", get_code_slice(stat)))
        ELSE Ok(stat)

\* the check of one collapsed right piece
check_expr(expr) ==
    IF ~is_expr(expr)
    THEN Err(SyntaxMsg("Right side of '=' must be a expr statement", get_code_slice(expr)))
    ELSE Ok(expr)

\* the "for split in splits_list" loop building var_list
RECURSIVE var_list_loop(_, _, _, _)
var_list_loop(splits_list, i, local, list) ==
    IF i > Len(splits_list) THEN Ok(list)
    ELSE LET stat == collapse_statement(splits_list[i]) IN
        IF stat.kind # "Ok" THEN stat
        ELSE LET checked == check_var(stat.val, local) IN
            IF checked.kind # "Ok" THEN checked
            ELSE var_list_loop(splits_list, i + 1, local, Append(list, stat.val))

\* the "for split in splits_list" loop building expr_list
RECURSIVE expr_list_loop(_, _, _)
expr_list_loop(splits_list, i, list) ==
    IF i > Len(splits_list) THEN Ok(list)
    ELSE LET expr == collapse_statement(splits_list[i]) IN
        IF expr.kind # "Ok" THEN expr
        ELSE LET checked == check_expr(expr.val) IN
            IF checked.kind # "Ok" THEN checked
            ELSE expr_list_loop(splits_list, i + 1, Append(list, expr.val))

\* what the call returns, and the caller's buffer after it
collapse_assignment(raw_statements, stmt) ==
    LET local == contains_token(stmt, "Local")
        left == remove_token(stmt, "Local")
        consumed == consume_until_token(raw_statements, "EOL", FALSE)
    IN  CASE consumed.kind = "Panic" -> [res |-> Panic, raw |-> consumed.rest]
          [] consumed.kind = "Err" ->
                [res |-> Err(SyntaxMsg("Failed to find EOL", consumed.cs)),
                 raw |-> consumed.rest]
          [] consumed.kind = "Ok" ->
                LET var_list == var_list_loop(split_by_token(left, "Comma"), 1, local, <<>>)
                IN  IF var_list.kind # "Ok"
                    THEN [res |-> var_list, raw |-> consumed.rest]
                    ELSE LET expr_list ==
                                expr_list_loop(split_by_token(consumed.tokens, "Comma"),
                                               1, <<>>)
                         IN  IF expr_list.kind # "Ok"
                             THEN [res |-> expr_list, raw |-> consumed.rest]
                             ELSE [res |-> Ok(create_assignment(var_list.val,
                                                                expr_list.val, local)),
                                   raw |-> consumed.rest]

(***************************************************************************)
(* Parser::collapse_block_statement.                                       *)
(***************************************************************************)
BlockOpeners == {"Do", "While", "If", "For", "Function", "Repeat"}

BlockClosers == {"End", "Until"}

counting_loops(token, counter) ==
    CASE as_token_type(token) \in BlockOpeners -> counter + 1
      [] as_token_type(token) \in BlockClosers -> counter - 1
      [] OTHER -> counter

NoExpr == [k |-> "NoExpr"]

\* block_prologue that keeps the `do` it searched for (include = true)
block_prologue_include(raw_statements, starter) ==
    IF starter = "While" THEN
        LET consumed == consume_until_token(raw_statements, "Do", TRUE) IN
        CASE consumed.kind = "Panic" -> [res |-> Panic, raw |-> consumed.rest]
          [] consumed.kind = "Err" ->
                [res |-> Err(SyntaxMsg("Couldn't find the do in the while .. do .. end",
                                       consumed.cs)),
                 raw |-> consumed.rest]
          [] consumed.kind = "Ok" ->
                [res |-> collapse_statement(consumed.tokens), raw |-> consumed.rest]
    ELSE [res |-> Ok([k |-> "NoExpr"]), raw |-> raw_statements]

\* lines 208-229: what the call has set up when it enters its loop, or the error
\* it returns before that; and the caller's buffer at that point
block_prologue(raw_statements, starter) ==
    IF starter = "While" THEN
        LET consumed == consume_until_token(raw_statements, "Do", FALSE) IN
        CASE consumed.kind = "Panic" -> [res |-> Panic, raw |-> consumed.rest]
          [] consumed.kind = "Err" ->
                [res |-> Err(SyntaxMsg("Couldn't find the do in the while .. do .. end",
                                       consumed.cs)),
                 raw |-> consumed.rest]
          [] consumed.kind = "Ok" ->
                [res |-> collapse_statement(consumed.tokens), raw |-> consumed.rest]
    ELSE [res |-> Ok(NoExpr), raw |-> raw_statements]

\* lines 245-256: the statement built from the processed insides
block_result(starter, pre_expr, insides) ==
    CASE starter = "Do" -> Ok([k |-> "DoEnd", body |-> insides])
      [] starter = "While" ->
            IF pre_expr = NoExpr
            THEN Err(General("while .. do .. end has no expression?!?, Impossible!"))
            ELSE Ok([k |-> "WhileDoEnd", cond |-> pre_expr, body |-> insides])
      [] OTHER -> Err(General("FALT"))

(***************************************************************************)
(* Frames of the call stack.                                               *)
(***************************************************************************)
ProcessFrame(raw_statements) ==
    [fn |-> "process_statements", raw |-> raw_statements, stmt |-> <<>>,
     working |-> <<>>]

\* BlockFrame with the counter started at 0
BlockFrame_from_zero(starter, pre_expr) ==
    [fn |-> "collapse_block_statement", starter |-> starter, loop_looker |-> 0,
     working |-> <<>>, pre_expr |-> pre_expr]

BlockFrame(starter, pre_expr) ==
    [fn |-> "collapse_block_statement", starter |-> starter, loop_looker |-> 1,
     working |-> <<>>, pre_expr |-> pre_expr]

Depth == Len(stack)

Top == stack[Depth]

InProcess == Depth > 0 /\ Top.fn = "process_statements"

InBlock == Depth > 0 /\ Top.fn = "collapse_block_statement"

\* the stack with its top frame replaced
WithTop(frame) == [stack EXCEPT ![Depth] = frame]

Popped == SubSeq(stack, 1, Depth - 1)

\* the buffer a block call works on: the raw_statements of its caller
Caller == stack[Depth - 1]

(***************************************************************************)
(* Parser::from_scanner.                                                   *)
(***************************************************************************)
render(error) ==
    CASE error.err = "General" -> [text |-> error.msg]
      [] error.err = "Syntax" ->
            [text |-> "Syntax error parsing code",
             code |-> <<error.cs.abs_start, error.cs.abs_end>>,
             line |-> error.cs.line_no, col |-> error.cs.start]
      [] error.err = "SyntaxMsg" ->
            [text |-> error.msg,
             code |-> <<error.cs.abs_start, error.cs.abs_end>>,
             line |-> error.cs.line_no, col |-> error.cs.start]

Chunk_new(statements) == [k |-> "Chunk", statements |-> statements]

FromScannerCall ==
    /\ Depth = 0 /\ ret = None /\ result = None
    /\ stack' = <<ProcessFrame(tokens_to_statements(input))>>
    /\ UNCHANGED <<proto, input, ret, result, statement, pos, outcome>>

\* FromScannerReturn with a check that the last statement is no bare expression
FromScannerReturn_validating ==
    /\ Len(stack) = 0 /\ ret # None /\ result = None
    /\ result' = CASE ret.kind = "Ok" ->
                        IF Len(ret.val) > 0 /\ is_expr(ret.val[Len(ret.val)])
                        THEN Err(render(Syntax(get_code_slice(ret.val[Len(ret.val)]))))
                        ELSE Ok([chunks |-> <<[k |-> "Chunk", statements |-> ret.val]>>])
                   [] ret.kind = "Err" -> Err(render(ret.error))
                   [] ret.kind = "Panic" -> Panic
    /\ UNCHANGED <<proto, input, stack, ret, statement, pos, outcome>>

FromScannerReturn ==
    /\ Depth = 0 /\ ret # None /\ result = None
    /\ result' = CASE ret.kind = "Ok" -> Ok([chunks |-> <<Chunk_new(ret.val)>>])
                   [] ret.kind = "Err" -> Err(render(ret.error))
                   [] ret.kind = "Panic" -> Panic
    /\ UNCHANGED <<proto, input, stack, ret, statement, pos, outcome>>

(***************************************************************************)
(* Parser::process_statements, one loop iteration per step.                *)
(***************************************************************************)
Return(value) ==
    /\ stack' = Popped
    /\ ret' = value

\* raw_statements is consumed
ProcessEnd ==
    /\ InProcess /\ ret = None
    /\ Len(Top.raw) <= 0
    /\ IF Len(Top.stmt) > 0
       THEN LET stat == collapse_statement(Top.stmt) IN
            IF stat.kind = "Ok"
            THEN Return(Ok(Append(Top.working, stat.val)))
            ELSE Return(stat)
       ELSE Return(Ok(Top.working))
    /\ UNCHANGED <<proto, input, result, statement, pos, outcome>>

\* ProcessEol that reduces the pending group whether or not it holds anything
ProcessEol_unguarded ==
    /\ Len(stack) > 0 /\ stack[Len(stack)].fn = "process_statements" /\ ret = None
    /\ Len(stack[Len(stack)].raw) > 0
    /\ as_token_type(Head(stack[Len(stack)].raw)) \in {"EOF", "EOL"}
    /\ LET top == stack[Len(stack)]
           stat == collapse_statement(top.stmt)
       IN  IF stat.kind = "Ok"
           THEN /\ stack' = [stack EXCEPT ![Len(stack)] =
                                [top EXCEPT !.raw = Tail(@), !.stmt = <<>>,
                                            !.working = Append(@, stat.val)]]
                /\ ret' = ret
           ELSE /\ stack' = SubSeq(stack, 1, Len(stack) - 1)
                /\ ret' = stat
    /\ UNCHANGED <<proto, input, result, statement, pos, outcome>>

ProcessEol ==
    /\ InProcess /\ ret = None
    /\ Len(Top.raw) > 0
    /\ as_token_type(Head(Top.raw)) \in {"EOF", "EOL"}
    /\ IF Len(Top.stmt) > 0
       THEN LET stat == collapse_statement(Top.stmt) IN
            IF stat.kind = "Ok"
            THEN /\ stack' = WithTop([Top EXCEPT !.raw = Tail(@), !.stmt = <<>>,
                                                 !.working = Append(@, stat.val)])
                 /\ ret' = ret
            ELSE Return(stat)
       ELSE /\ stack' = WithTop([Top EXCEPT !.raw = Tail(@)])
            /\ ret' = ret
    /\ UNCHANGED <<proto, input, result, statement, pos, outcome>>

\* do or while: collapse_block_statement is called and runs up to its loop
ProcessBlock ==
    /\ InProcess /\ ret = None
    /\ Len(Top.raw) > 0
    /\ as_token_type(Head(Top.raw)) \in {"Do", "While"}
    /\ LET starter == as_token_type(Head(Top.raw))
           entered == block_prologue(Tail(Top.raw), starter)
       IN  IF entered.res.kind = "Ok"
           THEN /\ stack' = Append(WithTop([Top EXCEPT !.raw = entered.raw]),
                                   BlockFrame(starter, entered.res.val))
                /\ ret' = ret
           ELSE Return(entered.res)
    /\ UNCHANGED <<proto, input, result, statement, pos, outcome>>

ProcessEqual ==
    /\ InProcess /\ ret = None
    /\ Len(Top.raw) > 0
    /\ as_token_type(Head(Top.raw)) = "Equal"
    /\ LET called == collapse_assignment(Tail(Top.raw), Top.stmt) IN
       IF called.res.kind = "Ok"
       THEN /\ stack' = WithTop([Top EXCEPT !.raw = called.raw, !.stmt = <<>>,
                                            !.working = Append(@, called.res.val)])
            /\ ret' = ret
       ELSE Return(called.res)
    /\ UNCHANGED <<proto, input, result, statement, pos, outcome>>

ProcessToken ==
    /\ InProcess /\ ret = None
    /\ Len(Top.raw) > 0
    /\ as_token_type(Head(Top.raw)) \notin {"EOF", "EOL", "Do", "While", "Equal"}
    /\ stack' = WithTop([Top EXCEPT !.raw = Tail(@), !.stmt = Append(@, Head(Top.raw))])
    /\ UNCHANGED <<proto, input, ret, result, statement, pos, outcome>>

\* collapse_block_statement has returned a statement
ProcessBlockDone ==
    /\ InProcess /\ ret.kind = "Ok"
    /\ stack' = WithTop([Top EXCEPT !.working = Append(@, ret.val)])
    /\ ret' = None
    /\ UNCHANGED <<proto, input, result, statement, pos, outcome>>

\* Propagate with the caller taking the error for an empty result and going on
Propagate_recovering ==
    /\ Len(stack) > 0 /\ ret.kind \in {"Err", "Panic"}
    /\ ret' = IF stack[Len(stack)].fn = "process_statements"
              THEN [kind |-> "Ok", val |-> [k |-> "DoEnd", body |-> <<>>]]
              ELSE [kind |-> "Ok", val |-> <<>>]
    /\ UNCHANGED <<proto, input, stack, result, statement, pos, outcome>>

\* the ? operator of a caller: an error (or a panic unwinding) leaves the frame as it is
Propagate ==
    /\ Depth > 0 /\ ret.kind \in {"Err", "Panic"}
    /\ stack' = Popped
    /\ UNCHANGED <<proto, input, ret, result, statement, pos, outcome>>

(***************************************************************************)
(* Parser::collapse_block_statement, one loop iteration per step.          *)
(***************************************************************************)
BlockExhausted ==
    /\ InBlock /\ ret = None
    /\ Len(Caller.raw) <= 0
    /\ Return(Err(General("Can't find the end of the statement!")))
    /\ UNCHANGED <<proto, input, result, statement, pos, outcome>>

\* a token that leaves the block open
BlockToken ==
    /\ InBlock /\ ret = None
    /\ Len(Caller.raw) > 0
    /\ LET loop_token == Head(Caller.raw)
           counted == counting_loops(loop_token, Top.loop_looker)
       IN  /\ counted # 0
           /\ stack' = [stack EXCEPT
                  ![Depth - 1] = [@ EXCEPT !.raw = Tail(@)],
                  ![Depth] = [@ EXCEPT !.loop_looker = counted,
                                       !.working = Append(@, loop_token)]]
    /\ UNCHANGED <<proto, input, ret, result, statement, pos, outcome>>

\* the token that closes the block: its insides are processed
BlockClose ==
    /\ InBlock /\ ret = None
    /\ Len(Caller.raw) > 0
    /\ LET loop_token == Head(Caller.raw)
           counted == counting_loops(loop_token, Top.loop_looker)
       IN  /\ counted = 0
           /\ stack' = Append([stack EXCEPT
                  ![Depth - 1] = [@ EXCEPT !.raw = Tail(@)],
                  ![Depth] = [@ EXCEPT !.loop_looker = counted]],
                  ProcessFrame(Top.working))
    /\ UNCHANGED <<proto, input, ret, result, statement, pos, outcome>>

\* process_statements has returned the insides
BlockDone ==
    /\ InBlock /\ ret.kind = "Ok"
    /\ Return(block_result(Top.starter, Top.pre_expr, ret.val))
    /\ UNCHANGED <<proto, input, result, statement, pos, outcome>>

Next ==
    \/ FromScannerCall
    \/ FromScannerReturn
    \/ ProcessEnd
    \/ ProcessEol
    \/ ProcessBlock
    \/ ProcessEqual
    \/ ProcessToken
    \/ ProcessBlockDone
    \/ Propagate
    \/ BlockExhausted
    \/ BlockToken
    \/ BlockClose
    \/ BlockDone

(***************************************************************************)
(* The sources handed to from_scanner: sequences of token types, each      *)
(* ending with the scanner's EOF.                                          *)
(***************************************************************************)
ParserAlphabet ==
    {"Identifier", "Plus", "Equal", "Comma", "Local", "EOL", "Do", "While", "End"}

FreeInputs == UNION {[1..n -> ParserAlphabet] : n \in 0..MaxInputLen}

\* s1 , s2 , ... , sn for up to n pieces of the set
RECURSIVE CommaLists(_, _)
CommaLists(pieces, n) ==
    IF n = 1 THEN pieces
    ELSE CommaLists(pieces, n - 1)
            \cup {l \o <<"Comma">> \o q : l \in CommaLists(pieces, n - 1), q \in pieces}

LeftPieces == {<<"Identifier">>, <<"Number">>, <<"Identifier", "Plus", "Identifier">>}

RightPieces ==
    {<<"Number">>, <<"False">>, <<"Number", "Plus", "Number">>, <<"Minus", "Number">>,
     <<"Plus">>}

AssignLines ==
    {loc \o l \o <<"Equal">> \o r \o eol :
        loc \in {<<>>, <<"Local">>},
        l \in CommaLists(LeftPieces, MaxTargets),
        r \in CommaLists(RightPieces, MaxValues),
        eol \in {<<>>, <<"EOL">>}}

\* bob,linda,jorge = 5 * 4 + 3,false
MismatchExample ==
    <<"Identifier", "Comma", "Identifier", "Comma", "Identifier", "Equal",
      "Number", "Star", "Number", "Plus", "Number", "Comma", "False">>

BlockLines ==
    {<<>>, <<"Identifier", "EOL">>, <<"Number", "Plus", "Number", "EOL">>}

LastLines == BlockLines \cup {<<"Number", "Plus", "Number">>}

BlockHeads == {<<"Do">>, <<"While", "True", "Do">>}

\* opener, lines, at most one nested block, lines, end
RECURSIVE Blocks(_)
Blocks(d) ==
    {h \o a \o b \o c \o <<"End">> :
        h \in BlockHeads, a \in BlockLines,
        b \in (IF d = 0 THEN {<<>>} ELSE Blocks(d - 1) \cup {<<>>}),
        c \in LastLines}

\* the source of tests::functions
FunctionsTest ==
    <<"EOL", "Function", "Identifier", "LeftParen", "Identifier", "Comma", "Identifier",
      "Comma", "Identifier", "RightParen", "EOL",
      "Local", "Identifier", "Equal", "Identifier", "Plus", "Identifier", "EOL",
      "Return", "Identifier", "Star", "Identifier", "EOL",
      "End", "EOL">>

Examples ==
    {MismatchExample,
     <<"Number", "Plus", "Number">>,
     <<"Number", "Plus", "Number", "EOL", "Identifier", "Equal", "Number">>,
     <<"Identifier", "Equal", "Number", "EOL", "Number", "Plus", "Number">>,
     <<"Identifier", "Equal", "Number", "EOL", "Break">>,
     <<"Break">>,
     <<"Return", "Number">>,
     <<"Identifier", "Equal", "Number", "EOL", "Return", "Identifier">>,
     <<"Do", "Identifier", "Identifier", "End", "EOL", "Identifier", "Equal", "Number">>,
     <<"Do", "Identifier", "Equal", "Number", "End">>,
     <<"Do", "Identifier", "Equal", "Number", "EOL", "End">>,
     <<"Do", "Identifier", "Equal", "Number", "Plus", "Number", "End", "EOL">>,
     <<"WhiteSpace">>,
     <<"Function", "Identifier", "LeftParen", "Identifier", "RightParen", "EOL",
       "Return", "Identifier", "EOL", "End">>,
     FunctionsTest,
     <<"Comment", "EOL", "Number">>,
     <<"Number", "WhiteSpace", "Plus", "WhiteSpace", "Number">>}

Sources == FreeInputs \cup AssignLines \cup Blocks(MaxNesting) \cup Examples

Init ==
    /\ input \in {src \o <<"EOF">> : src \in Sources}
    /\ TreeIdle /\ BuildIdle /\ BinaryIdle /\ SliceIdle
    /\ stack = Idle
    /\ ret = None
    /\ result = None
    /\ statement = <<>>
    /\ pos = 0
    /\ outcome = None

Spec == Init /\ [][Next]_vars

(***************************************************************************)
(* The prototype crate (src/src). Tree::from_scanner groups the scanner's  *)
(* tokens into lines; one loop iteration per step. A token is its type and *)
(* its place in the scanner's list.                                        *)
(***************************************************************************)
MaxSegmentLen == 3

SimpleToken(types, i) == [k |-> "Token", tt |-> types[i], at |-> i]

Gram_create(token) == [g |-> "Token", token |-> token]

\* line 24, Some(token), lines 36-38: any token but EOL joins the group
TreeToken ==
    /\ tree = None /\ Len(raw_tokens) > 0
    /\ Head(raw_tokens).tt # "EOL"
    /\ raw_tokens' = Tail(raw_tokens)
    /\ sub_tokens' = Append(sub_tokens, Gram_create(Head(raw_tokens)))
    /\ UNCHANGED <<input, coreVars, tree_tokens, tree,
                   buildVars, binaryVars, sliceVars>>

\* lines 30-35: EOL closes the group if it holds anything
TreeEol ==
    /\ tree = None /\ Len(raw_tokens) > 0
    /\ Head(raw_tokens).tt = "EOL"
    /\ raw_tokens' = Tail(raw_tokens)
    /\ IF Len(sub_tokens) > 0
       THEN /\ tree_tokens' = Append(tree_tokens, sub_tokens)
            /\ sub_tokens' = <<>>
       ELSE UNCHANGED <<tree_tokens, sub_tokens>>
    /\ UNCHANGED <<input, coreVars, tree,
                   buildVars, binaryVars, sliceVars>>

\* the loop's end without the catch of the last group
TreeFinish_no_catch ==
    /\ tree = None /\ Len(raw_tokens) = 0
    /\ tree' = Ok([tokens |-> tree_tokens])
    /\ sub_tokens' = <<>>
    /\ UNCHANGED <<input, coreVars, raw_tokens, tree_tokens,
                   buildVars, binaryVars, sliceVars>>

\* line 27 and lines 45-55: the list is used up, the last group is caught
TreeFinish ==
    /\ tree = None /\ Len(raw_tokens) = 0
    /\ LET caught == IF Len(sub_tokens) > 0 THEN Append(tree_tokens, sub_tokens)
                     ELSE tree_tokens
       IN  /\ tree_tokens' = caught
           /\ tree' = Ok([tokens |-> caught])
    /\ sub_tokens' = IF Len(sub_tokens) > 0 THEN <<>> ELSE sub_tokens
    /\ UNCHANGED <<input, coreVars, raw_tokens,
                   buildVars, binaryVars, sliceVars>>

TreeAlphabet == {"Number", "Plus", "EOL", "WhiteSpace", "Comment"}

TreeInputs == UNION {[1..n -> TreeAlphabet] : n \in 0..(MaxSegmentLen + 1)}

InitTree ==
    /\ input \in TreeInputs
    /\ raw_tokens = [i \in 1..Len(input) |-> SimpleToken(input, i)]
    /\ tree_tokens = <<>>
    /\ sub_tokens = <<>>
    /\ tree = None
    /\ ParserIdle /\ BuildIdle /\ BinaryIdle /\ SliceIdle

(***************************************************************************)
(* The prototype Parser (src/src/parser.rs): build_tree, one token of      *)
(* next_token per step, and end_of_line. A token is one character wide, so *)
(* cursor_pos is the number of tokens read.                                *)
(***************************************************************************)
Branch_new(token) == [token |-> token, children |-> <<>>]

add_child(branch, child) == [branch EXCEPT !.children = Append(@, child)]

is_none(branch) == branch.token = "None"

cursor_pos == Len(input) - Len(code_tokens)

\* end_of_line with every empty line pushing its tree
end_of_line_always(current, assignment, cursor) ==
    LET new_tree == [range |-> <<0, cursor>>, branches |-> <<>>] IN
    IF assignment # None
    THEN Append(trees, [new_tree EXCEPT !.branches =
                            <<add_child(assignment.branch, current)>>])
    ELSE Append(trees, [new_tree EXCEPT !.branches = <<current>>])

\* lines 116-136: self.trees after the call
end_of_line(current, assignment, cursor) ==
    LET new_tree == [range |-> <<0, cursor>>, branches |-> <<>>] IN
    IF assignment # None
    THEN Append(trees, [new_tree EXCEPT !.branches =
                            <<add_child(assignment.branch, current)>>])
    ELSE IF is_none(current) THEN trees
    ELSE Append(trees, [new_tree EXCEPT !.branches = <<current>>])

Some(branch) == [kind |-> "Some", branch |-> branch]

Building == built = None /\ Len(code_tokens) > 0

\* lines 147-149
BuildWhiteSpace ==
    /\ Building /\ Head(code_tokens) = "WhiteSpace"
    /\ code_tokens' = Tail(code_tokens)
    /\ UNCHANGED <<input, coreVars,
                   treeVars,
                   trees, current_branch, assignment_branch, built,
                   binaryVars, sliceVars>>

\* lines 150-167 and 174-182: a word, a string or an int
BuildLeaf ==
    /\ Building /\ Head(code_tokens) \in {"Word", "String", "Int"}
    /\ code_tokens' = Tail(code_tokens)
    /\ current_branch' = IF ~is_none(current_branch)
                         THEN add_child(current_branch, Branch_new(Head(code_tokens)))
                         ELSE Branch_new(Head(code_tokens))
    /\ UNCHANGED <<input, coreVars,
                   treeVars,
                   trees, assignment_branch, built, binaryVars, sliceVars>>

\* lines 168-173
BuildEol ==
    /\ Building /\ Head(code_tokens) = "EOL"
    /\ code_tokens' = Tail(code_tokens)
    /\ trees' = end_of_line(current_branch, assignment_branch,
                            cursor_pos + 1)
    /\ assignment_branch' = None
    /\ current_branch' = Branch_new("None")
    /\ UNCHANGED <<input, coreVars,
                   treeVars, built,
                   binaryVars, sliceVars>>

\* lines 183-197
BuildOperator ==
    /\ Building /\ Head(code_tokens) \in {"Plus", "Minus", "Equals"}
    /\ code_tokens' = Tail(code_tokens)
    /\ LET branch == add_child(Branch_new(Head(code_tokens)), current_branch) IN
       IF Head(code_tokens) = "Equals"
       THEN /\ assignment_branch' = Some(branch)
            /\ current_branch' = Branch_new("None")
       ELSE /\ current_branch' = branch
            /\ UNCHANGED assignment_branch
    /\ UNCHANGED <<input, coreVars,
                   treeVars, trees, built,
                   binaryVars, sliceVars>>

\* lines 198-200
BuildNone ==
    /\ Building /\ Head(code_tokens) = "None"
    /\ code_tokens' = Tail(code_tokens)
    /\ built' = Err([text |-> "Cannot have a 'Start' token inside a code block."])
    /\ UNCHANGED <<input, coreVars,
                   treeVars,
                   trees, current_branch, assignment_branch, binaryVars, sliceVars>>

\* line 146 and lines 204-206: next_token gives EOF
BuildEof ==
    /\ built = None /\ Len(code_tokens) = 0
    /\ trees' = end_of_line(current_branch, assignment_branch, cursor_pos)
    /\ built' = Ok(<<>>)
    /\ UNCHANGED <<input, coreVars,
                   treeVars,
                   code_tokens, current_branch, assignment_branch, binaryVars, sliceVars>>

BuildAlphabet == {"Word", "Int", "WhiteSpace", "EOL", "Plus", "Equals", "None"}

BuildInputs == UNION {[1..n -> BuildAlphabet] : n \in 0..MaxSegmentLen}

InitBuild ==
    /\ input \in BuildInputs
    /\ code_tokens = input
    /\ trees = <<>>
    /\ current_branch = Branch_new("None")
    /\ assignment_branch = None
    /\ built = None
    /\ ParserIdle /\ TreeIdle /\ BinaryIdle /\ SliceIdle

(***************************************************************************)
(* The three segmenters side by side: each behaviour runs one of them.     *)
(***************************************************************************)
InitSegment == Init \/ InitTree \/ InitBuild

NextSegment ==
    \/ Next
    \/ TreeToken
    \/ TreeEol
    \/ TreeFinish
    \/ BuildWhiteSpace
    \/ BuildLeaf
    \/ BuildEol
    \/ BuildOperator
    \/ BuildNone
    \/ BuildEof

SpecSegment == InitSegment /\ [][NextSegment]_vars

(***************************************************************************)
(* CodeSlice::create_from on its own: two slices as CodeSlice::new makes   *)
(* them, and one call.                                                     *)
(***************************************************************************)
MaxByte == 3

MaxLine == 2

CodeSlices ==
    {CodeSlice_new(abs_start, abs_end, line, line_start_pos) :
        abs_start \in 0..MaxByte, abs_end \in 0..MaxByte, line \in 1..MaxLine,
        line_start_pos \in 0..MaxByte}

InitSlice ==
    /\ arg1 \in {c \in CodeSlices : c.abs_start <= c.abs_end /\ c.start >= 1}
    /\ arg2 \in {c \in CodeSlices : c.abs_start <= c.abs_end /\ c.start >= 1}
    /\ arg3 = Off
    /\ created = None
    /\ input = Idle
    /\ ParserIdle /\ TreeIdle /\ BuildIdle /\ BinaryIdle

\* the call: both arguments are borrowed
CreateFrom ==
    /\ created = None
    /\ created' = create_from(arg1, arg2)
    /\ UNCHANGED <<input, coreVars, treeVars, buildVars, binaryVars, arg1, arg2, arg3>>

NextSlice == CreateFrom

SpecSlice == InitSlice /\ [][NextSlice]_vars

(***************************************************************************)
(* Binary::process_set of the prototype crate (src/src/grammar/binary.rs), *)
(* one pass of its inner loop per step. tier is the t of Some(t).          *)
(***************************************************************************)
MaxSetOps == 3

MaxSetLen == 4

OPERATION_ORDER ==
    <<{"Carrot"},
      {"Star", "Slash"},
      {"Plus", "Minus"},
      {"DoublePeriod"},
      {"GreaterThan", "LessThan", "GreaterEqual", "LessEqual", "NotEqual", "EqualEqual"},
      {"And"},
      {"Or"}>>

Gram_Token(token) == [g |-> "Token", token |-> token]

Gram_Expression(expr) == [g |-> "Expression", e |-> expr]

\* Gram::Token(..).to_literal().unwrap().to_expr().unwrap()
to_expr(token) == Gram_Expression([k |-> "Literal", token |-> token])

is_expression(gram) == gram.g = "Expression"

unwrap_expr(gram) == gram.e

unwrap_token(gram) == gram.token

\* Expression::create_into_gram(Gram::Binary(..))
create_into_gram(binary) == Gram_Expression(binary)

Literals == {"Number", "String", "Nil", "True", "False"}

\* the caller's list: literals as expressions, everything else as tokens
GramsOf(types) ==
    [i \in 1..Len(types) |->
        IF types[i] \in Literals THEN to_expr(SimpleToken(types, i))
        ELSE Gram_Token(SimpleToken(types, i))]

\* lines 102-123: the positions i (0-based) whose triple matches in tier t
Matches(gs, t) ==
    {i \in 0..(Len(gs) - 3) :
        /\ is_expression(gs[i + 1]) /\ is_expression(gs[i + 3])
        /\ gs[i + 2].g = "Token"
        /\ gs[i + 2].token.tt \in OPERATION_ORDER[t + 1]}

\* the scan with the last matching triple taken
reset_loop_last(gs, t) == CHOOSE i \in Matches(gs, t) : \A j \in Matches(gs, t) : j <= i

\* the scan stops at the first one
reset_loop(gs, t) == CHOOSE i \in Matches(gs, t) : \A j \in Matches(gs, t) : i <= j

\* lines 129-150: the triple at i drained, the new expression inserted at i
fold_at(gs, i) ==
    LET new_gram == [k |-> "Binary",
                     left_expr |-> unwrap_expr(gs[i + 1]),
                     operator |-> unwrap_token(gs[i + 2]),
                     right_expr |-> unwrap_expr(gs[i + 3])]
    IN  SubSeq(gs, 1, i) \o <<create_into_gram(new_gram)>> \o SubSeq(gs, i + 4, Len(gs))

Processing == processed = None

\* line 73
BinaryShort ==
    /\ Processing /\ Len(grams) < 3
    /\ processed' = Ok(<<>>)
    /\ UNCHANGED <<input, coreVars, treeVars, buildVars, sliceVars, grams, tier>>

\* lines 126-154: a match in this tier
BinaryFold ==
    /\ Processing /\ Len(grams) >= 3
    /\ Len(OPERATION_ORDER) > tier
    /\ Matches(grams, tier) # {}
    /\ grams' = fold_at(grams, reset_loop(grams, tier))
    /\ processed' = IF Len(grams') < 3 THEN Ok(<<>>) ELSE processed
    /\ UNCHANGED <<input, coreVars, treeVars, buildVars, sliceVars, tier>>

\* lines 162-178: no match, the next tier
BinaryNextTier ==
    /\ Processing /\ Len(grams) >= 3
    /\ Len(OPERATION_ORDER) > tier
    /\ Matches(grams, tier) = {}
    /\ tier' = tier + 1
    /\ UNCHANGED <<input, coreVars, treeVars, buildVars, sliceVars, grams, processed>>

\* lines 81-84 and 181: the tiers are used up
BinaryDone ==
    /\ Processing /\ Len(grams) >= 3
    /\ ~(Len(OPERATION_ORDER) > tier)
    /\ processed' = Ok(<<>>)
    /\ UNCHANGED <<input, coreVars, treeVars, buildVars, sliceVars, grams, tier>>

SetOperators == UNION {OPERATION_ORDER[t] : t \in 1..Len(OPERATION_ORDER)}

\* expression (operator expression)^n
RECURSIVE Alternating(_)
Alternating(n) ==
    IF n = 0 THEN {<<"Number">>}
    ELSE {c \o <<op, "Number">> : c \in Alternating(n - 1), op \in SetOperators}

SetAlphabet == {"Number", "Plus", "Star", "Not", "Percent", "LeftParen"}

SetInputs ==
    UNION {Alternating(n) : n \in 0..MaxSetOps}
        \cup UNION {[1..n -> SetAlphabet] : n \in 0..MaxSetLen}

InitBinary ==
    /\ input \in SetInputs
    /\ grams = GramsOf(input)
    /\ tier = 0
    /\ processed = None
    /\ ParserIdle /\ TreeIdle /\ BuildIdle /\ SliceIdle

NextBinary ==
    \/ BinaryShort
    \/ BinaryFold
    \/ BinaryNextTier
    \/ BinaryDone

SpecBinary == InitBinary /\ [][NextBinary]_vars

(***************************************************************************)
(* Binary::create_from of the prototype crate on its own: three grams,     *)
(* left_token, operator and right_token, and one call.                     *)
(***************************************************************************)
Gram_Binary(binary) == [g |-> "Binary", b |-> binary]

SomeGram(gram) == [kind |-> "Some", gram |-> gram]

Pending == [kind |-> "Pending"]

\* create_from that takes any gram as the left operand
Binary_create_from_any_left(left_token, operator, right_token) ==
    IF /\ operator.g = "Token"
       /\ right_token.g = "Expression"
       /\ operator.token.tt \in
            {"Carrot", "Star", "Slash", "Plus", "Minus", "DoublePeriod", "LessThan",
             "GreaterThan", "GreaterEqual", "LessEqual", "NotEqual", "EqualEqual",
             "And", "Or"}
    THEN SomeGram(Gram_Binary([k |-> "Binary",
                               left_expr |-> IF left_token.g = "Expression"
                                             THEN left_token.e ELSE left_token,
                               operator |-> operator.token,
                               right_expr |-> right_token.e]))
    ELSE None

Binary_create_from(left_token, operator, right_token) ==
    IF /\ left_token.g = "Expression"
       /\ operator.g = "Token"
       /\ right_token.g = "Expression"
       /\ operator.token.tt \in
            {"Carrot", "Star", "Slash", "Plus", "Minus", "DoublePeriod", "LessThan",
             "GreaterThan", "GreaterEqual", "LessEqual", "NotEqual", "EqualEqual",
             "And", "Or"}
    THEN SomeGram(Gram_Binary([k |-> "Binary",
                               left_expr |-> left_token.e,
                               operator |-> operator.token,
                               right_expr |-> right_token.e]))
    ELSE None

\* Token::simple(token_type)
Token_simple(tt) == SimpleToken(<<tt>>, 1)

CreateGrams ==
    {Gram_Token(Token_simple(tt)) :
        tt \in SetOperators \cup {"LeftParen", "Not", "Percent", "Number"}}
      \cup {to_expr(Token_simple(tt)) : tt \in {"Nil", "String"}}
      \cup {Gram_Expression([k |-> "Binary",
                             left_expr |-> to_expr(Token_simple("Nil")).e,
                             operator |-> Token_simple("Plus"),
                             right_expr |-> to_expr(Token_simple("String")).e]),
            Gram_Binary([k |-> "Binary",
                         left_expr |-> to_expr(Token_simple("Nil")).e,
                         operator |-> Token_simple("Plus"),
                         right_expr |-> to_expr(Token_simple("String")).e])}

InitCreate ==
    /\ arg1 \in CreateGrams
    /\ arg2 \in CreateGrams
    /\ arg3 \in CreateGrams
    /\ created = Pending
    /\ input = Idle
    /\ ParserIdle /\ TreeIdle /\ BuildIdle /\ BinaryIdle

\* the call: the three arguments are borrowed
BinaryCreateFrom ==
    /\ created = Pending
    /\ created' = Binary_create_from(arg1, arg2, arg3)
    /\ UNCHANGED <<input, coreVars, treeVars, buildVars, binaryVars, arg1, arg2, arg3>>

(***************************************************************************)
(* The operators of the prototype crate: create_from next to process_set,  *)
(* each behaviour running one of them.                                     *)
(***************************************************************************)
InitOperators == InitCreate \/ InitBinary

NextOperators == BinaryCreateFrom \/ NextBinary

SpecOperators == InitOperators /\ [][NextOperators]_vars

(***************************************************************************)
(* The two folding loops side by side: each behaviour runs one of them.    *)
(***************************************************************************)
InitFold == InitReduce \/ InitBinary

NextFold == NextReduce \/ NextBinary

SpecFold == InitFold /\ [][NextFold]_vars

(***************************************************************************)
(* Reference trees for the claims about collapse_statement.                *)
(***************************************************************************)
Bin(op, l, r) == [k |-> "Binary", op |-> op, l |-> l, r |-> r]

Un(op, e) == [k |-> "Unary", op |-> op, expr |-> e]

\* ((t1 t2 t3) t4 t5) ... over the first n operators of the chain t
RECURSIVE LeftNest(_, _)
LeftNest(t, n) ==
    IF n = 0 THEN t[1] ELSE Bin(t[2 * n], LeftNest(t, n - 1), t[2 * n + 1])

\* (t1 t2 (t3 t4 (...))) over the operators from the i-th operand on
RECURSIVE RightNest(_, _)
RightNest(t, i) ==
    IF i = Len(t) THEN t[i] ELSE Bin(t[i + 1], t[i], RightNest(t, i + 2))

IsChain(types) ==
    /\ Len(types) % 2 = 1
    /\ \A i \in 1..Len(types) :
        IF i % 2 = 1 THEN types[i] \in ExprTokens ELSE types[i] \in BinaryOps

NumOps(types) == (Len(types) - 1) \div 2

SameTier(types) ==
    \A i, j \in 1..NumOps(types) : Tier(types[2 * i]) = Tier(types[2 * j])

Returned == outcome # None

InputTokens == tokens_to_statements(input)

(***************************************************************************)
(* C1: precedence. For every a op1 b op2 c the reducer returns             *)
(* Binary(op1, a, Binary(op2, b, c)) when op2 is of a strictly tighter     *)
(* tier than op1 and Binary(op2, Binary(op1, a, b), c) when op1 is the     *)
(* tighter one; and 50 == 4 and 3 <= 10 or true becomes                    *)
(* or(and(==(50,4), <=(3,10)), true).                                      *)
(***************************************************************************)
C1_Precedence ==
    LET t == InputTokens IN
    /\ (Returned /\ IsChain(input) /\ Len(input) = 5) =>
        /\ Tier(input[4]) < Tier(input[2]) =>
                outcome = Ok(Bin(t[2], t[1], Bin(t[4], t[3], t[5])))
        /\ Tier(input[2]) < Tier(input[4]) =>
                outcome = Ok(Bin(t[4], Bin(t[2], t[1], t[3]), t[5]))
    /\ (Returned /\ input = LogicExample) =>
        outcome = Ok(Bin(t[8], Bin(t[4], Bin(t[2], t[1], t[3]),
                                          Bin(t[6], t[5], t[7])), t[9]))

(***************************************************************************)
(* C2: left-associativity. Every chain of operands joined by operators of  *)
(* one tier reduces to the left-nested tree, never to the right-nested     *)
(* one, whatever its length.                                               *)
(***************************************************************************)
C2_LeftAssociative ==
    (Returned /\ IsChain(input) /\ SameTier(input)) =>
        /\ outcome = Ok(LeftNest(InputTokens, NumOps(input)))
        /\ NumOps(input) >= 2 => outcome # Ok(RightNest(InputTokens, 1))

C2_Witness ==
    /\ Returned /\ IsChain(input) /\ SameTier(input)
    /\ NumOps(input) = MaxOps
    /\ input[2] # input[4]
    /\ outcome.kind = "Ok"

(***************************************************************************)
(* C3: unary folding. A unary operator followed by an expression and not   *)
(* preceded by one is folded with that operand before any binary operator  *)
(* can take the operand; an operator preceded by an expression is never    *)
(* folded as unary; -5 gives Unary(-,5) and -5+4 gives                     *)
(* Binary(+, Unary(-,5), 4).                                               *)
(***************************************************************************)
\* 0-based positions of the unary operators that are ready to fold
UnaryReady(st) ==
    {p \in 0..(Len(st) - 2) :
        /\ is_unop(st[p + 1])
        /\ is_expr(st[p + 2])
        /\ ~(p > 0 /\ is_expr(st[p]))}

\* operator and operand of position p are still side by side in st2
StillAdjacent(st, p, st2) ==
    \E q \in 1..(Len(st2) - 1) : st2[q] = st[p + 1] /\ st2[q + 1] = st[p + 2]

FoldedAsUnary(st, p, st2) ==
    /\ Len(st2) = Len(st) - 1
    /\ st2[p + 1] = Un(st[p + 1], st[p + 2])

C3_FoldStep ==
    statement' # statement =>
        /\ \A p \in UnaryReady(statement) :
                FoldedAsUnary(statement, p, statement')
                    \/ StillAdjacent(statement, p, statement')
        /\ \A q \in 1..Len(statement') :
                (statement'[q].k = "Unary"
                    /\ \A i \in 1..Len(statement) : statement[i] # statement'[q])
                => /\ statement'[q] = Un(statement[q], statement[q + 1])
                   /\ is_unop(statement[q])
                   /\ ~(q > 1 /\ is_expr(statement[q - 1]))

C3_Examples ==
    LET t == InputTokens IN
    /\ (Returned /\ input = <<"Minus", "Number">>) => outcome = Ok(Un(t[1], t[2]))
    /\ (Returned /\ input = <<"Minus", "Number", "Plus", "Number">>) =>
            outcome = Ok(Bin(t[3], Un(t[1], t[2]), t[4]))

C3_UnaryFolding == [][C3_FoldStep]_vars /\ []C3_Examples

C3_Witness ==
    /\ input = <<"Minus", "Number", "Plus", "Number">>
    /\ outcome.kind = "Ok"
    /\ outcome.val.k = "Binary"
    /\ outcome.val.l.k = "Unary"

(***************************************************************************)
(* Reference reading of a source, by token index, for the claims about     *)
(* from_scanner.  t is the token list, types its token types.              *)
(***************************************************************************)
Finished == result # None

Last == Len(input)

ExpectOk(stmts) == Ok([chunks |-> <<[k |-> "Chunk", statements |-> stmts]>>])

ExpectErr(text, first, last) ==
    Err([text |-> text,
         code |-> <<first.cs.abs_start, last.cs.abs_end>>,
         line |-> first.cs.line_no, col |-> first.cs.start])

Count(types, lo, hi, kinds) == Cardinality({i \in lo..hi : types[i] \in kinds})

\* first index in lo..hi holding one of the kinds, hi + 1 when there is none
NextOf(types, lo, hi, kinds) ==
    IF \E i \in lo..hi : types[i] \in kinds
    THEN CHOOSE i \in lo..hi :
            types[i] \in kinds /\ \A j \in lo..(i - 1) : types[j] \notin kinds
    ELSE hi + 1

\* the index ranges between the separators of lo..hi, in order
RECURSIVE Ranges(_, _, _, _)
Ranges(types, lo, hi, sep) ==
    LET e == NextOf(types, lo, hi, {sep}) IN
    <<<<lo, e - 1>>>> \o (IF e > hi THEN <<>> ELSE Ranges(types, e + 1, hi, sep))

\* a piece whose tree the claims fix: one operand, a unary operator and its
\* operand, or a chain in which no operator is looser than a later one
ValidPiece(types, a, b) ==
    \/ a = b /\ types[a] \in ExprTokens
    \/ b = a + 1 /\ types[a] \in UnaryOps /\ types[b] \in ExprTokens
    \/ /\ b > a
       /\ IsChain(SubSeq(types, a, b))
       /\ \A i, j \in 1..((b - a) \div 2) :
            i < j => Tier(types[a + 2 * i - 1]) <= Tier(types[a + 2 * j - 1])

RefPiece(t, a, b) ==
    IF a = b THEN t[a]
    ELSE IF b = a + 1 THEN Un(t[a], t[b])
    ELSE LeftNest(SubSeq(t, a, b), (b - a) \div 2)

\* [local] t1,...,tn = e1,...,em [EOL] EOF
EqualAt == NextOf(input, 1, Last, {"Equal"})

LeftStart == IF input[1] = "Local" THEN 2 ELSE 1

RightEnd == NextOf(input, EqualAt + 1, Last, {"EOL", "EOF"}) - 1

LeftRanges == Ranges(input, LeftStart, EqualAt - 1, "Comma")

RightRanges == Ranges(input, EqualAt + 1, RightEnd, "Comma")

\* one `=`, pieces on both sides, nothing after the line
IsAssignLine ==
    /\ Count(input, 1, Last, {"Equal"}) = 1
    /\ Count(input, 1, Last, {"Do", "While", "End"}) = 0
    /\ Count(input, LeftStart, EqualAt - 1, {"Local"}) = 0
    /\ \A i \in (RightEnd + 1)..Last : input[i] \in {"EOL", "EOF"}
    /\ \A i \in 1..Len(LeftRanges) : LeftRanges[i][1] <= LeftRanges[i][2]
    /\ \A i \in 1..Len(RightRanges) : RightRanges[i][1] <= RightRanges[i][2]

GoodLeft(i) ==
    LeftRanges[i][1] = LeftRanges[i][2] /\ input[LeftRanges[i][1]] = "Identifier"

GoodRight(i) == ValidPiece(input, RightRanges[i][1], RightRanges[i][2])

WellFormedAssign ==
    /\ IsAssignLine
    /\ \A i \in 1..Len(LeftRanges) : GoodLeft(i)
    /\ \A i \in 1..Len(RightRanges) : GoodRight(i)

ExpectedAssignment ==
    LET t == InputTokens IN
    [k |-> "Assignment",
     vars |-> [i \in 1..Len(LeftRanges) |-> t[LeftRanges[i][1]]],
     exprs |-> [i \in 1..Len(RightRanges) |->
                    RefPiece(t, RightRanges[i][1], RightRanges[i][2])],
     local |-> (input[1] = "Local")]

C5_MismatchedCounts ==
    LET t == InputTokens IN
    /\ (Finished /\ WellFormedAssign /\ Len(LeftRanges) # Len(RightRanges)) =>
        /\ result.kind = "Ok"
        /\ Len(result.val.chunks[1].statements) = 1
        /\ Len(result.val.chunks[1].statements[1].vars)
                = 1 + Count(input, 1, EqualAt, {"Comma"})
        /\ Len(result.val.chunks[1].statements[1].exprs)
                = 1 + Count(input, EqualAt, Last, {"Comma"})
    /\ (Finished /\ input = MismatchExample \o <<"EOF">>) =>
        result = ExpectOk(<<[k |-> "Assignment",
                             vars |-> <<t[1], t[3], t[5]>>,
                             exprs |-> <<Bin(t[10], Bin(t[8], t[7], t[9]), t[11]), t[13]>>,
                             local |-> FALSE]>>)

C5_Witness ==
    /\ input = MismatchExample \o <<"EOF">>
    /\ result.kind = "Ok"
    /\ Len(result.val.chunks[1].statements[1].vars) = 3
    /\ Len(result.val.chunks[1].statements[1].exprs) = 2

(***************************************************************************)
(* C6: assignment side validation. The first left piece that is no var     *)
(* (no name, for a local assignment) gives the span-plus-message error of  *)
(* the left side with that piece's span; with every left piece good, the   *)
(* first right piece that is no expression gives the error of the right    *)
(* side with its span; no Assignment is built in either case.              *)
(***************************************************************************)
\* a piece that reduces to one node of the wrong category
BadLeft(i) ==
    ~GoodLeft(i) /\ ValidPiece(input, LeftRanges[i][1], LeftRanges[i][2])

BadRight(i) ==
    RightRanges[i][1] = RightRanges[i][2] /\ input[RightRanges[i][1]] \in BinaryOps

\* every piece reduces to one node
ReducibleAssign ==
    /\ IsAssignLine
    /\ \A i \in 1..Len(LeftRanges) : GoodLeft(i) \/ BadLeft(i)
    /\ \A i \in 1..Len(RightRanges) : GoodRight(i) \/ BadRight(i)

FirstBad(ranges, Bad(_)) ==
    CHOOSE i \in 1..Len(ranges) : Bad(i) /\ \A j \in 1..(i - 1) : ~Bad(j)

LeftMessage ==
    IF input[1] = "Local" THEN "Left side of a local '=' must be a name"
    ELSE "Left side of '=' must be a var"

C6_SideValidation ==
    LET t == InputTokens IN
    (Finished /\ ReducibleAssign) =>
        IF \E i \in 1..Len(LeftRanges) : BadLeft(i)
        THEN LET r == LeftRanges[FirstBad(LeftRanges, BadLeft)] IN
             result = ExpectErr(LeftMessage, t[r[1]], t[r[2]])
        ELSE IF \E i \in 1..Len(RightRanges) : BadRight(i)
        THEN LET r == RightRanges[FirstBad(RightRanges, BadRight)] IN
             result = ExpectErr("Right side of '=' must be a expr statement",
                                t[r[1]], t[r[2]])
        ELSE result.kind = "Ok"

\* a bad piece on both sides: the left one is reported
C6_Witness ==
    /\ Finished /\ ReducibleAssign
    /\ input[1] = "Local"
    /\ \E i \in 1..Len(LeftRanges) : BadLeft(i) /\ LeftRanges[i][2] > LeftRanges[i][1]
    /\ \E i \in 1..Len(RightRanges) : BadRight(i)
    /\ result.kind = "Err"
    /\ result.error.text = "Left side of a local '=' must be a name"


(***************************************************************************)
(* Reference reading of lines and do-blocks.                               *)
(***************************************************************************)
\* the `end` that closes the `do` at lo, hi + 1 when there is none
MatchEnd(types, lo, hi) ==
    IF \E m \in (lo + 1)..hi :
            /\ types[m] = "End"
            /\ Count(types, lo + 1, m - 1, {"Do"}) = Count(types, lo + 1, m - 1, {"End"})
    THEN CHOOSE m \in (lo + 1)..hi :
            /\ types[m] = "End"
            /\ Count(types, lo + 1, m - 1, {"Do"}) = Count(types, lo + 1, m - 1, {"End"})
            /\ \A j \in (lo + 1)..(m - 1) :
                ~(/\ types[j] = "End"
                  /\ Count(types, lo + 1, j - 1, {"Do"})
                        = Count(types, lo + 1, j - 1, {"End"}))
    ELSE hi + 1

LinePiece(types, a, b) == ValidPiece(types, a, b) \/ (a = b /\ types[a] = "Break")

\* lo..hi is a sequence of statements: lines that end at an EOL or at hi, and
\* closed do-blocks of such sequences
RECURSIVE WellNested(_, _, _)
WellNested(types, lo, hi) ==
    IF lo > hi THEN TRUE
    ELSE IF types[lo] = "EOL" THEN WellNested(types, lo + 1, hi)
    ELSE IF types[lo] = "End" THEN FALSE
    ELSE IF types[lo] = "Do" THEN
        LET m == MatchEnd(types, lo, hi) IN
        m <= hi /\ WellNested(types, lo + 1, m - 1) /\ WellNested(types, m + 1, hi)
    ELSE LET e == NextOf(types, lo, hi, {"EOL", "Do", "End"}) IN
        /\ LinePiece(types, lo, e - 1)
        /\ e > hi \/ types[e] = "EOL"
        /\ WellNested(types, e + 1, hi)

\* its statements
RECURSIVE RefStmts(_, _, _, _)
RefStmts(t, types, lo, hi) ==
    IF lo > hi THEN <<>>
    ELSE IF types[lo] = "EOL" THEN RefStmts(t, types, lo + 1, hi)
    ELSE IF types[lo] = "Do" THEN
        LET m == MatchEnd(types, lo, hi) IN
        <<[k |-> "DoEnd", body |-> RefStmts(t, types, lo + 1, m - 1)]>>
            \o RefStmts(t, types, m + 1, hi)
    ELSE LET e == NextOf(types, lo, hi, {"EOL", "Do", "End"}) IN
        <<RefPiece(t, lo, e - 1)>> \o RefStmts(t, types, e + 1, hi)

\* do <lines> end EOF
DoShape ==
    /\ Last >= 3
    /\ input[1] = "Do" /\ input[Last - 1] = "End" /\ input[Last] = "EOF"
    /\ Count(input, 2, Last - 2, {"Do", "While", "End", "Equal", "Break"}) = 0
    /\ WellNested(input, 2, Last - 2)

DoAt == NextOf(input, 2, Last, {"Do"})

\* while <cond> do <lines> end EOF
WhileShape ==
    /\ Last >= 5
    /\ input[1] = "While" /\ input[Last - 1] = "End" /\ input[Last] = "EOF"
    /\ DoAt <= Last - 2
    /\ ValidPiece(input, 2, DoAt - 1)
    /\ Count(input, DoAt + 1, Last - 2, {"Do", "While", "End", "Equal", "Break"}) = 0
    /\ WellNested(input, DoAt + 1, Last - 2)

\* while <two operands> do ...
WhileBadCondition ==
    /\ Last >= 4
    /\ input[1] = "While" /\ input[4] = "Do"
    /\ input[2] \in ExprTokens /\ input[3] \in ExprTokens

(***************************************************************************)
(* C7: block statements. do <body> end gives one DoEnd whose body is the   *)
(* reduced statements of the tokens between do and end; while <cond> do    *)
(* <body> end gives one WhileDoEnd whose condition is the reduced tokens   *)
(* between while and the first do, reduced before the body is looked at;   *)
(* opener, do and end are in neither.                                      *)
(***************************************************************************)
C7_BlockStatements ==
    LET t == InputTokens IN
    /\ (Finished /\ DoShape) =>
        result = ExpectOk(<<[k |-> "DoEnd", body |-> RefStmts(t, input, 2, Last - 2)]>>)
    /\ (Finished /\ WhileShape) =>
        result = ExpectOk(<<[k |-> "WhileDoEnd",
                             cond |-> RefPiece(t, 2, DoAt - 1),
                             body |-> RefStmts(t, input, DoAt + 1, Last - 2)]>>)
    /\ (Finished /\ WhileBadCondition) =>
        result = ExpectErr("Syntax error parsing code", t[2], t[3])

C7_Witness ==
    /\ Finished /\ WhileShape
    /\ result.kind = "Ok"
    /\ Len(result.val.chunks[1].statements[1].body) = 2
    /\ result.val.chunks[1].statements[1].body[2].k = "Binary"

(***************************************************************************)
(* C8: nested do-blocks are matched by depth. do A do B end C end gives    *)
(* the outer DoEnd holding the statements of A, the inner DoEnd of B and   *)
(* the statements of C, at every nesting depth; a block's counter starts   *)
(* at 1, goes up with each opener and down with each end it takes in, and  *)
(* the block closes at the end that brings it to 0.                        *)
(***************************************************************************)
NestedDoShape ==
    /\ Last >= 5
    /\ input[1] = "Do" /\ input[Last] = "EOF"
    /\ Count(input, 1, Last, {"While", "Equal", "Break"}) = 0
    /\ MatchEnd(input, 1, Last - 1) = Last - 1
    /\ Count(input, 2, Last - 2, {"Do"}) >= 1
    /\ WellNested(input, 2, Last - 2)

TypesOf(tokens) == [i \in 1..Len(tokens) |-> as_token_type(tokens[i])]

\* the counter of a block call, from the tokens it has taken in
Balance(frame) ==
    1 + Count(TypesOf(frame.working), 1, Len(frame.working), BlockOpeners)
      - Count(TypesOf(frame.working), 1, Len(frame.working), BlockClosers)

Unterminated ==
    /\ input[1] = "Do" /\ input[Last] = "EOF"
    /\ Count(input, 1, Last, {"End", "While", "Equal"}) = 0

C9_UnterminatedIsSyntaxError ==
    (Finished /\ Unterminated) =>
        /\ result.kind = "Err"
        /\ "code" \in DOMAIN result.error

(***************************************************************************)
(* C10 as claimed: from_scanner accepts a chunk only if every statement    *)
(* but the last is a true statement and the last is a statement or a       *)
(* terminal statement, and it accepts a chunk ending in return <expr> or   *)
(* break.                                                                  *)
(***************************************************************************)
IsTrueStatement(s) == s.k \in {"Assignment", "DoEnd", "WhileDoEnd"}

IsTerminal(s) == s.k = "Return" \/ (s.k = "Token" /\ s.tt \in {"Break", "Return"})

ExpressionLines ==
    /\ input[Last] = "EOF"
    /\ Count(input, 1, Last, {"Equal", "Do", "While", "End"}) = 0
    /\ WellNested(input, 1, Last - 1)

Parsed == result.kind \in {"Ok", "Err", "Panic"}

\* lines of lo..hi that hold a token outside noise
LinesWith(types, lo, hi, noise) ==
    LET r == Ranges(types, lo, hi, "EOL") IN
    Cardinality({n \in 1..Len(r) : \E i \in r[n][1]..r[n][2] : types[i] \notin noise})

PlainLines == Count(input, 1, Last, {"Equal", "Do", "While"}) = 0

C11_Groups ==
    /\ \A n \in 1..Len(tree_tokens) : Len(tree_tokens[n]) >= 1
    /\ tree.kind = "Ok" =>
        /\ Len(tree.val.tokens) = LinesWith(input, 1, Last, {})
        /\ \A n \in 1..Len(tree.val.tokens) : Len(tree.val.tokens[n]) >= 1
    /\ (Parsed /\ PlainLines) =>
        /\ result # Err([text |-> "Statement is empty?"])
        /\ result.kind = "Ok" =>
            Len(result.val.chunks[1].statements) = LinesWith(input, 1, Last - 1, {})
    /\ built.kind = "Ok" => Len(trees) = LinesWith(input, 1, Last, {"WhiteSpace"})

\* a line terminator read with nothing pending
BlankInProcess ==
    /\ InProcess /\ ret = None /\ Len(Top.raw) > 0
    /\ as_token_type(Head(Top.raw)) \in {"EOF", "EOL"}
    /\ Len(Top.stmt) = 0

BlankInBuild ==
    /\ Building /\ Head(code_tokens) = "EOL"
    /\ is_none(current_branch) /\ assignment_branch = None

C11_BlankStep ==
    /\ BlankInProcess =>
        /\ stack' = WithTop([Top EXCEPT !.raw = Tail(@)])
        /\ ret' = ret
    /\ BlankInBuild => trees' = trees
    /\ (tree = None /\ Len(raw_tokens) > 0 /\ Head(raw_tokens).tt = "EOL"
            /\ Len(sub_tokens) = 0) => tree_tokens' = tree_tokens

C11_NoEmptyStatement == []C11_Groups /\ [][C11_BlankStep]_vars

\* 5 <EOL> <EOL> 5: two statements, the blank line between them gives none
C11_Witness ==
    /\ Parsed /\ PlainLines
    /\ \E i \in 2..(Last - 2) : input[i] = "EOL" /\ input[i + 1] = "EOL"
    /\ result.kind = "Ok"
    /\ Len(result.val.chunks[1].statements) = 2


(***************************************************************************)
(* C12: structural noise is dropped by the segmenter. No whitespace token  *)
(* and no comment token of the input is ever in a group handed to the      *)
(* reducer, and a line of only whitespace and comment tokens gives no      *)
(* group and no error.                                                     *)
(***************************************************************************)
Noise == {"WhiteSpace", "Comment"}

SpanOf(first, last) ==
    [abs_start |-> get_code_slice(first).abs_start,
     abs_end |-> get_code_slice(last).abs_end,
     line_no |-> get_code_slice(first).line_no,
     start |-> get_code_slice(first).start,
     end |-> get_code_slice(last).end]

C13_ReducerOutcome ==
    (Returned /\ Len(input) >= 1) =>
        IF Len(statement) = 1
        THEN outcome = Ok(statement[1])
        ELSE outcome = Err(Syntax(SpanOf(statement[1], statement[Len(statement)])))


(***************************************************************************)
(* C14: the span-less internal error for an empty group ("Statement is     *)
(* empty?") is unreachable from user input: no token sequence makes        *)
(* process_statements, collapse_assignment or collapse_block_statement     *)
(* hand collapse_statement a zero-length group, so from_scanner never      *)
(* returns that error.                                                     *)
(***************************************************************************)
C14_EmptyGroupUnreachable ==
    Finished => result # Err([text |-> "Statement is empty?"])


(***************************************************************************)
(* C15: every failure is a returned error value. For every token sequence, *)
(* a group ending in a unary or binary operator and an = or while that is  *)
(* the last token of a block body included, the reducer functions return   *)
(* Ok or Err and index no list out of range, so from_scanner returns Ok or *)
(* Err.                                                                    *)
(***************************************************************************)
C15_NoPanic ==
    Finished => result.kind \in {"Ok", "Err"}


(***************************************************************************)
(* C16: idempotence on singletons. collapse_statement on a group of        *)
(* exactly one element returns Ok with that element unchanged, whatever    *)
(* the element is (an operator token included), so reducing the result of  *)
(* a successful reduction again gives the same node.                       *)
(***************************************************************************)
C16_SingletonIdempotent ==
    /\ (Returned /\ Len(input) = 1) => outcome = Ok(Token(input, 1))
    /\ (Returned /\ outcome.kind = "Ok") =>
            collapse_statement(<<outcome.val>>) = Ok(outcome.val)
    /\ (Running /\ Len(statement) = 1) =>
            collapse_statement(statement) = Ok(statement[1])

\* the lone operator - is returned as it is
C16_Witness ==
    /\ Returned
    /\ input = <<"Minus">>
    /\ outcome = Ok(Token(input, 1))


(***************************************************************************)
(* C17: no partial recovery. The first error a reduction step raises, at   *)
(* any nesting depth, goes unmodified through every caller: no frame does  *)
(* anything but return it, no further token is read, and from_scanner      *)
(* returns Err with exactly that error rendered and no chunk.              *)
(***************************************************************************)
C17_ErrorStep ==
    ret.kind = "Err" =>
        /\ ret' = ret
        /\ Depth > 0 => stack' = Popped /\ result' = result
        /\ Depth = 0 => stack' = stack /\ result' = Err(render(ret.error))

C17_ErrorKept ==
    /\ (Finished /\ ret.kind = "Err") => result = Err(render(ret.error))
    /\ (Finished /\ result.kind = "Err") => ret.kind = "Err" /\ Depth = 0

C17_NoPartialRecovery == []C17_ErrorKept /\ [][C17_ErrorStep]_vars

\* an error raised in the body of a block, with a statement left after the block
C17_Witness ==
    /\ Finished
    /\ input[1] = "Do"
    /\ result.kind = "Err"
    /\ "code" \in DOMAIN result.error
    /\ result.error.code[1] >= 1
    /\ result.error.code[2] < Last - 3


(***************************************************************************)
(* C18: span combination. create_from(a, b) returns a span whose byte      *)
(* start, line and column are those of a and whose byte end and end column *)
(* are those of b, and changes neither a nor b.                            *)
(***************************************************************************)
\* create_from has returned
SliceCreated == "abs_start" \in DOMAIN created

C18_Combined ==
    SliceCreated =>
        /\ created.abs_start = arg1.abs_start
        /\ created.line_no = arg1.line_no
        /\ created.start = arg1.start
        /\ created.abs_end = arg2.abs_end
        /\ created.end = arg2.end

C18_Borrowed == arg1' = arg1 /\ arg2' = arg2

C18_SpanCombination == []C18_Combined /\ [][C18_Borrowed]_vars

\* two slices of different lines have been combined
C18_Witness ==
    /\ SliceCreated
    /\ arg1.line_no = 1 /\ arg2.line_no = 2
    /\ arg1.abs_start < arg2.abs_start
    /\ created.line_no = 1


(***************************************************************************)
(* C19: function definitions. A source function name(p1,...,pn) <body> end *)
(* spread over several lines parses to a chunk holding one function        *)
(* statement with the parameter names in order and the reduced body        *)
(* statements in order: the function keyword triggers block extraction     *)
(* like do and while.                                                      *)
(***************************************************************************)
FunctionAt == NextOf(input, 1, Last, {"Function"})

ParenOpen == NextOf(input, 1, Last, {"LeftParen"})

ParenClose == NextOf(input, 1, Last, {"RightParen"})

\* [EOL] function name ( p1 , ... , pn ) EOL <lines> EOL end [EOL] EOF
FunctionSource ==
    /\ FunctionAt < Last
    /\ Count(input, 1, FunctionAt - 1, {"EOL"}) = FunctionAt - 1
    /\ Count(input, 1, Last, {"Function", "End"}) = 2
    /\ Count(input, 1, Last, {"Do", "While"}) = 0
    /\ ParenOpen = FunctionAt + 2 /\ ParenClose < Last
    /\ input[ParenClose + 1] = "EOL"

C19_FunctionDefinition ==
    (Finished /\ FunctionSource) =>
        /\ result.kind = "Ok"
        /\ Len(result.val.chunks[1].statements) = 1
        /\ LET f == result.val.chunks[1].statements[1]
               end_at == NextOf(input, 1, Last, {"End"})
           IN  /\ f.k = "Function"
               /\ Len(f.params) = Count(input, ParenOpen, ParenClose, {"Identifier"})
               /\ \A i \in 1..Len(f.params) : f.params[i].tt = "Identifier"
               /\ Len(f.body) = LinesWith(input, ParenClose + 1, end_at - 1, {})


(***************************************************************************)
(* C20: Binary::process_set is tiered precedence climbing. For every       *)
(* odd-length sequence alternating expressions and binary operators of the *)
(* seven tiers it works through the tiers in the fixed order, in a tier    *)
(* always folds the leftmost matching triple and scans the tier again,     *)
(* never goes back to an earlier tier, and ends with exactly one element:  *)
(* the tree of a reference precedence parser in which every tier is        *)
(* left-associative. 5 + 6 * 2 - 3 becomes ((5+(6*2))-3).                  *)
(***************************************************************************)
IsAlternating(types) ==
    /\ Len(types) % 2 = 1
    /\ \A i \in 1..Len(types) :
        IF i % 2 = 1 THEN types[i] \in Literals ELSE types[i] \in SetOperators

TierOf(tt) == CHOOSE t \in 1..Len(OPERATION_ORDER) : tt \in OPERATION_ORDER[t]

\* the reference parser: split at the last operator of the loosest tier
RECURSIVE RefClimb(_, _, _)
RefClimb(types, lo, hi) ==
    IF lo = hi THEN [k |-> "Literal", token |-> SimpleToken(types, lo)]
    ELSE LET ops == {i \in lo..hi : (i - lo) % 2 = 1}
             loosest == CHOOSE i \in ops :
                            \A j \in ops :
                                \/ TierOf(types[j]) < TierOf(types[i])
                                \/ TierOf(types[j]) = TierOf(types[i]) /\ j <= i
         IN  [k |-> "Binary",
              left_expr |-> RefClimb(types, lo, loosest - 1),
              operator |-> SimpleToken(types, loosest),
              right_expr |-> RefClimb(types, loosest + 1, hi)]

C20_Tree ==
    (processed.kind = "Ok" /\ IsAlternating(input)) =>
        grams = <<Gram_Expression(RefClimb(input, 1, Len(input)))>>

\* expression, operator of tier t + 1, expression at i (0-based)
IsTriple(gs, i, t) ==
    /\ is_expression(gs[i + 1]) /\ is_expression(gs[i + 3])
    /\ gs[i + 2].g = "Token"
    /\ gs[i + 2].token.tt \in OPERATION_ORDER[t + 1]

C20_Step ==
    Processing =>
        /\ tier' >= tier
        /\ grams' # grams =>
            /\ tier' = tier
            /\ \E i \in 0..(Len(grams) - 3) :
                /\ IsTriple(grams, i, tier)
                /\ grams' = fold_at(grams, i)
                /\ \A j \in 0..(i - 1) : ~IsTriple(grams, j, tier)
        /\ tier' > tier =>
            /\ tier' = tier + 1
            /\ \A j \in 0..(Len(grams) - 3) : ~IsTriple(grams, j, tier)

C20_TieredClimbing == []C20_Tree /\ [][C20_Step]_vars

\* 5 + 6 * 2 - 3 has become one element
C20_Witness ==
    /\ input = <<"Number", "Plus", "Number", "Star", "Number", "Minus", "Number">>
    /\ processed.kind = "Ok"
    /\ Len(grams) = 1
    /\ grams[1].e.operator.tt = "Minus"
    /\ grams[1].e.left_expr.right_expr.operator.tt = "Star"


(***************************************************************************)
(* C21: no operand is consumed twice or lost. After any number of fold     *)
(* steps of Binary::process_set or Parser::collapse_statement the leaves   *)
(* of the working list, left to right, are the original input group; each  *)
(* fold replaces exactly the matched adjacent elements (three for a        *)
(* binary, two for a unary) by one node at the same position, and every    *)
(* other element keeps its place in the order.                             *)
(***************************************************************************)
RECURSIVE LeavesOf(_)
LeavesOf(s) ==
    CASE s.k = "Token" -> <<s>>
      [] s.k = "Unary" -> <<s.op>> \o LeavesOf(s.expr)
      [] s.k = "Binary" -> LeavesOf(s.l) \o <<s.op>> \o LeavesOf(s.r)

RECURSIVE LeavesOfList(_)
LeavesOfList(st) ==
    IF Len(st) = 0 THEN <<>> ELSE LeavesOf(st[1]) \o LeavesOfList(Tail(st))

RECURSIVE LeavesOfExpr(_)
LeavesOfExpr(e) ==
    CASE e.k = "Literal" -> <<e.token>>
      [] e.k = "Binary" ->
            LeavesOfExpr(e.left_expr) \o <<e.operator>> \o LeavesOfExpr(e.right_expr)

LeavesOfGram(gram) ==
    IF gram.g = "Token" THEN <<gram.token>> ELSE LeavesOfExpr(gram.e)

RECURSIVE LeavesOfGrams(_)
LeavesOfGrams(gs) ==
    IF Len(gs) = 0 THEN <<>> ELSE LeavesOfGram(gs[1]) \o LeavesOfGrams(Tail(gs))

\* collapse_statement or process_set is the operation of this behaviour
Reducing == outcome.kind # "Off"

Climbing == processed.kind # "Off"

C21_Leaves ==
    /\ Reducing => LeavesOfList(statement) = tokens_to_statements(input)
    /\ Climbing =>
        LeavesOfGrams(grams) = [i \in 1..Len(input) |-> SimpleToken(input, i)]

\* new is old with the n elements from place p (1-based) replaced by one
ReplacedAt(old, new, p, n) ==
    /\ Len(new) = Len(old) - n + 1
    /\ SubSeq(new, 1, p - 1) = SubSeq(old, 1, p - 1)
    /\ SubSeq(new, p + 1, Len(new)) = SubSeq(old, p + n, Len(old))

C21_FoldStep ==
    /\ (Reducing /\ statement' # statement) =>
        \E p \in 1..Len(statement) :
            \/ /\ ReplacedAt(statement, statement', p, 2)
               /\ statement'[p].k = "Unary"
               /\ LeavesOf(statement'[p]) = LeavesOfList(SubSeq(statement, p, p + 1))
            \/ /\ ReplacedAt(statement, statement', p, 3)
               /\ statement'[p].k = "Binary"
               /\ LeavesOf(statement'[p]) = LeavesOfList(SubSeq(statement, p, p + 2))
    /\ (Climbing /\ grams' # grams) =>
        \E p \in 1..Len(grams) :
            /\ ReplacedAt(grams, grams', p, 3)
            /\ grams'[p].g = "Expression" /\ grams'[p].e.k = "Binary"
            /\ LeavesOfGram(grams'[p]) = LeavesOfGrams(SubSeq(grams, p, p + 2))

C21_NoOperandTwice == []C21_Leaves /\ [][C21_FoldStep]_vars

\* a unary and a binary fold have both happened on - 5 + 5
C21_Witness ==
    /\ Reducing /\ Returned
    /\ input = <<"Minus", "Number", "Plus", "Number">>
    /\ Len(statement) = 1
    /\ statement[1].k = "Binary"
    /\ statement[1].l.k = "Unary"


(***************************************************************************)
(* C22: Binary::create_from(left, op, right) returns a Binary exactly when *)
(* left and right are Expression grams and op is a Token gram of one of    *)
(* the 14 binary operators, and those 14 are exactly the union of the      *)
(* seven tiers of OPERATION_ORDER: a left parenthesis, not and the percent *)
(* sign are rejected by create_from and never folded by process_set.       *)
(***************************************************************************)
FourteenOperators ==
    {"Carrot", "Star", "Slash", "Plus", "Minus", "DoublePeriod", "LessThan",
     "GreaterThan", "GreaterEqual", "LessEqual", "NotEqual", "EqualEqual", "And", "Or"}

Called == "g" \in DOMAIN arg3 /\ created.kind \in {"Some", "None"}

RECURSIVE OperatorsOfExpr(_)
OperatorsOfExpr(e) ==
    IF e.k = "Binary"
    THEN OperatorsOfExpr(e.left_expr) \cup {e.operator.tt} \cup OperatorsOfExpr(e.right_expr)
    ELSE {}

FoldedOperators(gs) ==
    UNION {OperatorsOfExpr(gs[i].e) : i \in {j \in 1..Len(gs) : gs[j].g = "Expression"}}

C22_BinaryOperators ==
    /\ Cardinality(FourteenOperators) = 14
    /\ Len(OPERATION_ORDER) = 7
    /\ SetOperators = FourteenOperators
    /\ Called =>
        /\ created.kind = "Some" <=>
            /\ arg1.g = "Expression"
            /\ arg2.g = "Token"
            /\ arg3.g = "Expression"
            /\ arg2.token.tt \in FourteenOperators
        /\ created.kind = "Some" =>
            /\ created.gram.g = "Binary"
            /\ created.gram.b.left_expr = arg1.e
            /\ created.gram.b.operator = arg2.token
            /\ created.gram.b.right_expr = arg3.e
        /\ (arg2.g = "Token" /\ arg2.token.tt \in {"LeftParen", "Not", "Percent"}) =>
            created = None
    /\ Climbing =>
        /\ FoldedOperators(grams) \subseteq FourteenOperators
        /\ FoldedOperators(grams) \cap {"LeftParen", "Not", "Percent"} = {}

\* a Binary made from  nil or "what"
C22_Witness ==
    /\ Called
    /\ arg1 = to_expr(Token_simple("Nil"))
    /\ arg2 = Gram_Token(Token_simple("Or"))
    /\ arg3 = to_expr(Token_simple("String"))
    /\ created.kind = "Some"


(***************************************************************************)
(* C23: Tree::from_scanner is an order-preserving partition of its input.  *)
(* It consumes the whole token list; every token that is not an EOL is in  *)
(* exactly one group and no EOL is in any group; the groups concatenated   *)
(* in order are the input with the EOL tokens removed.                     *)
(***************************************************************************)
RECURSIVE Concatenated(_)
Concatenated(groups) ==
    IF Len(groups) = 0 THEN <<>> ELSE Head(groups) \o Concatenated(Tail(groups))

RECURSIVE WithoutEol(_)
WithoutEol(toks) ==
    IF Len(toks) = 0 THEN <<>>
    ELSE IF Head(toks).tt = "EOL" THEN WithoutEol(Tail(toks))
    ELSE <<Gram_create(Head(toks))>> \o WithoutEol(Tail(toks))

ScannerTokens == [i \in 1..Len(input) |-> SimpleToken(input, i)]

Grouping == tree.kind # "Off"

\* the places of the input a list of grams holds
PlacesIn(gs) == {gs[i].token.at : i \in 1..Len(gs)}

C23_Partition ==
    Grouping =>
        \* nothing is lost or doubled on the way
        /\ Concatenated(tree_tokens) \o sub_tokens \o WithoutEol(raw_tokens)
            = WithoutEol(ScannerTokens)
        /\ tree.kind = "Ok" =>
            /\ Len(raw_tokens) = 0
            /\ Concatenated(tree.val.tokens) = WithoutEol(ScannerTokens)
            /\ \A i \in 1..Len(input) :
                IF input[i] = "EOL"
                THEN \A g \in 1..Len(tree.val.tokens) :
                        i \notin PlacesIn(tree.val.tokens[g])
                ELSE Cardinality({g \in 1..Len(tree.val.tokens) :
                                    i \in PlacesIn(tree.val.tokens[g])}) = 1
            /\ \A g \in 1..Len(tree.val.tokens) :
                Cardinality(PlacesIn(tree.val.tokens[g])) = Len(tree.val.tokens[g])

\* 5 <newline> + 5 without a closing newline: two groups, the last one caught
C23_Witness ==
    /\ Grouping
    /\ input = <<"Number", "EOL", "Plus", "Number">>
    /\ tree.kind = "Ok"
    /\ Len(tree.val.tokens) = 2
    /\ Len(tree.val.tokens[2]) = 2


(***************************************************************************)
(* C24: an assignment that is the last statement of a block body, with no  *)
(* line terminator between its right-hand side and the closing end, as in  *)
(* do x = 5 end on one line, is parsed as an Assignment inside the block:  *)
(* the right-hand side runs to the next line terminator or to the end of   *)
(* the block's interior tokens, and reaching that end is no error.         *)
(***************************************************************************)
\* do <name> = <expression> end [EOL] EOF
EndAt == NextOf(input, 1, Last, {"End"})

AssignmentEndsBlock ==
    /\ Last >= 6
    /\ input[1] = "Do" /\ input[2] = "Identifier" /\ input[3] = "Equal"
    /\ EndAt >= 5 /\ EndAt < Last
    /\ ValidPiece(input, 4, EndAt - 1)
    /\ \A i \in (EndAt + 1)..Last : input[i] \in {"EOL", "EOF"}

C24_AssignmentEndsBlock ==
    LET t == InputTokens IN
    (Finished /\ AssignmentEndsBlock) =>
        result = ExpectOk(<<[k |-> "DoEnd",
                            body |-> <<[k |-> "Assignment",
                                        vars |-> <<t[2]>>,
                                        exprs |-> <<RefPiece(t, 4, EndAt - 1)>>,
                                        local |-> FALSE]>>]>>)


(***************************************************************************)
(* C25: every Assignment built by collapse_assignment follows              *)
(* varlist = explist with at least one target and at least one value; an   *)
(* = with nothing on its left, nothing on its right, or a trailing comma   *)
(* in either list is rejected with an error and never accepted with an     *)
(* empty or shortened list.                                                *)
(***************************************************************************)
\* [local] <left> = <right> [EOL] EOF, whatever the two sides hold
OneAssignLine ==
    /\ Count(input, 1, Last, {"Equal"}) = 1
    /\ Count(input, 1, Last, {"Do", "While", "End"}) = 0
    /\ Count(input, LeftStart, EqualAt - 1, {"Local"}) = 0
    /\ \A i \in (RightEnd + 1)..Last : input[i] \in {"EOL", "EOF"}

\* a side with no piece at all, or a comma with nothing on one of its sides
EmptyPiece ==
    \/ \E i \in 1..Len(LeftRanges) : LeftRanges[i][1] > LeftRanges[i][2]
    \/ \E i \in 1..Len(RightRanges) : RightRanges[i][1] > RightRanges[i][2]

C25_AssignmentGrammar ==
    /\ (Finished /\ result.kind = "Ok") =>
        \A i \in 1..Len(result.val.chunks[1].statements) :
            LET s == result.val.chunks[1].statements[i] IN
            s.k = "Assignment" => Len(s.vars) >= 1 /\ Len(s.exprs) >= 1
    \* rejected: no Assignment comes back
    /\ (Finished /\ OneAssignLine /\ EmptyPiece) => result.kind # "Ok"
    /\ (Finished /\ OneAssignLine /\ result.kind = "Ok") =>
        /\ Len(result.val.chunks[1].statements[1].vars) = Len(LeftRanges)
        /\ Len(result.val.chunks[1].statements[1].exprs) = Len(RightRanges)


(***************************************************************************)
(* C26: a while-loop nested in a do-block is matched under the depth rule. *)
(* For do while c do s end end the outer counter is back at zero exactly   *)
(* at the final end and the result is DoEnd([WhileDoEnd(c, [s])]); while   *)
(* and its own do count together as one level, so a correctly closed       *)
(* nested while never gives the error of an unterminated block.            *)
(***************************************************************************)
\* do while <cond> do <lines> end end EOF
NestedWhileShape ==
    /\ Last >= 7
    /\ input[1] = "Do" /\ input[2] = "While"
    /\ input[Last - 2] = "End" /\ input[Last - 1] = "End" /\ input[Last] = "EOF"
    /\ DoAt <= Last - 3
    /\ ValidPiece(input, 3, DoAt - 1)
    /\ Count(input, DoAt + 1, Last - 3, {"Do", "While", "End", "Equal", "Break"}) = 0
    /\ WellNested(input, DoAt + 1, Last - 3)

====
